---------------------------- MODULE Spec2Model ----------------------------
(***************************************************************************)
(* External merge sort of a text file (topmonroe9/external-sort-example):   *)
(* Splitter -> Sorter (inline or worker pool) -> Merger (k-way merge over   *)
(* a binary min-heap), sequenced by externalSort.                           *)
(*                                                                         *)
(* A line is a sequence of UTF-16 code units.  A file is a sequence of      *)
(* lines; the disk is a function from the paths that exist to their files.  *)
(* The main thread runs one action per stretch of code between two awaits;  *)
(* every worker thread runs one action per file-system call.                *)
(***************************************************************************)
EXTENDS Integers, Sequences, FiniteSets, TLC

(***************************************************************************)
(* Bounds of the model.                                                     *)
(***************************************************************************)
MaxLines == 3
MaxChunks == 3
MaxWorkersOpt == 2
MaxCpus == 2
MaxMergeChunks == 3
MaxMergeLines == 4
MaxHierChunks == 3
MaxHierLines == 3
MaxOpenFilesOpt == 2
MaxLevels == 3
MaxFaultChunks == 3
MaxFaultLines == 3
MaxLiveChunks == 2
MaxLiveWorkers == 2

(***************************************************************************)
(* Lines.  32 is the space, 66 is "B", 97 is "a".                           *)
(***************************************************************************)
Lines == { <<>>, <<32>>, <<66>>, <<97, 66>>, <<97, 97>> }

\* the lines of the chunk files merge is given on its own
MergeLines == { <<>>, <<66>>, <<97, 66>> }

\* reader.current = null (index.js 308, 327): no sequence of code units
Null == << -1 >>

\* the values options.maxMemoryBytes takes; 0 is "not given"
MemoryBudgets == {0, 1, 5}

Min(a, b) == IF a < b THEN a ELSE b
Max(a, b) == IF a > b THEN a ELSE b

\* a < b on strings: code-unit lexicographic order, a proper prefix is smaller
RECURSIVE LineLess(_, _)
LineLess(a, b) ==
  IF b = <<>> THEN FALSE
  ELSE IF a = <<>> THEN TRUE
  ELSE IF Head(a) < Head(b) THEN TRUE
  ELSE IF Head(a) > Head(b) THEN FALSE
  ELSE LineLess(Tail(a), Tail(b))

\* the comparator of sortLines and of the worker's sort: -1, 0 or 1
compareLines(a, b) == IF LineLess(a, b) THEN -1 ELSE IF LineLess(b, a) THEN 1 ELSE 0

\* String.prototype.trim: strip the white space at both ends
IsWhiteSpace(c) == c \in {9, 10, 11, 12, 13, 32}

RECURSIVE TrimStart(_)
TrimStart(s) == IF s # <<>> /\ IsWhiteSpace(Head(s)) THEN TrimStart(Tail(s)) ELSE s

RECURSIVE TrimEnd(_)
TrimEnd(s) ==
  IF s # <<>> /\ IsWhiteSpace(s[Len(s)]) THEN TrimEnd(SubSeq(s, 1, Len(s) - 1)) ELSE s

trim(s) == TrimEnd(TrimStart(s))

\* Array.prototype.sort with the comparator of sortLines: a stable sort
\* (each element goes after the last element that is not greater)
RECURSIVE InsertSorted(_, _)
InsertSorted(x, s) ==
  IF s = <<>> THEN <<x>>
  ELSE IF compareLines(x, Head(s)) < 0 THEN <<x>> \o s
  ELSE <<Head(s)>> \o InsertSorted(x, Tail(s))

RECURSIVE sortLines(_)
sortLines(lines) ==
  IF lines = <<>> THEN <<>>
  ELSE InsertSorted(lines[Len(lines)], sortLines(SubSeq(lines, 1, Len(lines) - 1)))

NonBlank(line) == Len(trim(line)) > 0

\* Buffer.byteLength of a string: the UTF-8 length of its code units
Utf8Len(c) == IF c < 128 THEN 1 ELSE IF c < 2048 THEN 2 ELSE 3

RECURSIVE byteLength(_)
byteLength(s) == IF s = <<>> THEN 0 ELSE Utf8Len(Head(s)) + byteLength(Tail(s))

\* lines.filter((line) => line.trim().length > 0)
RECURSIVE filterLines(_)
filterLines(s) ==
  IF s = <<>> THEN <<>>
  ELSE (IF NonBlank(Head(s)) THEN <<Head(s)>> ELSE <<>>) \o filterLines(Tail(s))

NewLine == <<10>>

(***************************************************************************)
(* Program constants.                                                       *)
(***************************************************************************)
\* 400 * 1024 * 1024
DefaultMaxMemoryBytes == 419430400
DefaultWorkerCap == 4
DefaultMaxOpenFiles == 100

(***************************************************************************)
(* Paths.  <<"chunk", i>> is chunk_00000i.txt of the temp directory,        *)
(* <<"sorted", i>> is chunk_00000i.sorted.txt, <<"out", 0>> the output.     *)
(***************************************************************************)
\* Splitter._getChunkPath
getChunkPath(chunkIndex) == <<"chunk", chunkIndex>>

\* chunkPath.replace(".txt", ".sorted.txt")
sortedPathOf(chunkPath) == <<"sorted", chunkPath[2]>>

outputFile == <<"out", 0>>

\* the place of a hole of a sparse array: for..of yields undefined there
Undefined == <<"undefined", 0>>

InTempDir(path) == path[1] \in {"chunk", "sorted"}

\* the lines readline yields from the file holding lines.join("\n") + "\n"
writtenJoined(lines) == IF lines = <<>> THEN << <<>> >> ELSE lines

\* data.split("\n") of a file of newline-terminated lines: a last empty piece
splitOnNewLine(fileLines) == fileLines \o << <<>> >>

VARIABLES
  entry,            \* the operation under way: externalSort, sortChunks or merge
  input,            \* the lines of the input file
  opts,             \* the options of the call
  cpus,             \* os.cpus().length
  disk0,            \* the disk as it was when the operation was called
  disk,             \* path -> lines, for the paths that exist
  tempDirExists,    \* the temp directory is there
  pc,               \* where the main thread is
  err,              \* the error the operation threw, "none" without one
  \* Splitter.split
  inPos, linesBuffer, currentChunkSize, chunkIndex, chunkFiles,
  \* Sorter.sortChunks
  seqIdx, workerPool, results, completedChunks, promise, workers,
  \* Merger._kWayMerge
  iter, existingChunks, readers, heap, linesWritten,
  \* Merger.merge and Merger._hierarchicalMerge
  mergePath,        \* the branch merge took: "none" before the call, "kway" or "hier"
  currentLevel, nextLevel, levelIndex,
  groupStart,       \* the i of the loop over the groups of a level
  group, mergedChunkPath,
  kWayResult,       \* the value the last _kWayMerge call resolved with
  \* verifySortedFile
  previousLine, lineCount, isSorted

cfgVars == <<entry, input, opts, cpus, disk0>>
splitVars == <<inPos, linesBuffer, currentChunkSize, chunkIndex, chunkFiles>>
sortVars == <<seqIdx, workerPool, results, completedChunks, promise, workers>>
mergeVars == <<iter, existingChunks, readers, heap, linesWritten>>
hierVars == <<mergePath, currentLevel, nextLevel, levelIndex, groupStart, group, mergedChunkPath>>
verifyVars == <<previousLine, lineCount, isSorted>>
vars == <<cfgVars, disk, tempDirExists, pc, err, splitVars, sortVars, mergeVars, hierVars,
          kWayResult, verifyVars>>

\* a JS array as a function on 0 .. length-1, possibly with holes
ArrLen(a) == IF DOMAIN a = {} THEN 0 ELSE 1 + CHOOSE m \in DOMAIN a : \A k \in DOMAIN a : k <= m
ArrAt(a, i) == IF i \in DOMAIN a THEN a[i] ELSE Undefined
ArrOfSeq(s) == [i \in 0 .. Len(s) - 1 |-> s[i + 1]]
ArrSet(a, i, v) == [k \in DOMAIN a \cup {i} |-> IF k = i THEN v ELSE a[k]]

Exists(path) == path \in DOMAIN disk
WriteFile(d, path, lines) == [p \in DOMAIN d \cup {path} |-> IF p = path THEN lines ELSE d[p]]
Unlink(d, path) == [p \in DOMAIN d \ {path} |-> d[p]]

RECURSIVE SeqsUpTo(_, _)
SeqsUpTo(S, n) ==
  IF n = 0 THEN { <<>> }
  ELSE LET shorter == SeqsUpTo(S, n - 1)
       IN shorter \cup { Append(s, x) : s \in { t \in shorter : Len(t) = n - 1 }, x \in S }

(***************************************************************************)
(* Splitter (part_000 195-299)                                              *)
(***************************************************************************)
\* Splitter.constructor: this.maxMemoryBytes, this.chunkSizeBytes
splitterMaxMemoryBytes(m) == IF m = 0 THEN DefaultMaxMemoryBytes ELSE m
\* Math.floor(this.maxMemoryBytes * 0.8)
chunkSizeBytes(m) == (splitterMaxMemoryBytes(m) * 4) \div 5

\* a test that lets a buffer of exactly chunkSizeBytes go on growing
chunkFullStrict(size, limit) == size > limit

\* currentChunkSize >= this.chunkSizeBytes
chunkFull(size, limit) == size >= limit

\* one turn of the for-await loop of split: take a line, flush when full
SplitLine ==
  /\ pc = "split"
  /\ inPos < Len(input)
  /\ LET line == input[inPos + 1]
         lineSize == byteLength(line \o NewLine)
         buf == Append(linesBuffer, line)
         size == currentChunkSize + lineSize
     IN /\ inPos' = inPos + 1
        /\ IF chunkFull(size, chunkSizeBytes(opts.maxMemoryBytes))
           THEN /\ disk' = WriteFile(disk, getChunkPath(chunkIndex), buf)
                /\ chunkFiles' = Append(chunkFiles, getChunkPath(chunkIndex))
                /\ linesBuffer' = <<>>
                /\ currentChunkSize' = 0
                /\ chunkIndex' = chunkIndex + 1
           ELSE /\ linesBuffer' = buf
                /\ currentChunkSize' = size
                /\ UNCHANGED <<disk, chunkFiles, chunkIndex>>
  /\ UNCHANGED <<cfgVars, hierVars, kWayResult, verifyVars, tempDirExists, pc, err, sortVars, mergeVars>>

\* where the caller of split goes on
AfterSplit == IF entry = "externalSort" THEN "sort" ELSE "returned"

\* the end of the input without the write of what is left
SplitFinishNoRemainder ==
  /\ pc = "split"
  /\ inPos = Len(input)
  /\ pc' = AfterSplit
  /\ UNCHANGED <<cfgVars, hierVars, kWayResult, verifyVars, disk, chunkFiles, tempDirExists, err,
                 inPos, linesBuffer, currentChunkSize, chunkIndex, sortVars, mergeVars>>

\* the end of the input: write what is left, return chunkFiles
SplitFinish ==
  /\ pc = "split"
  /\ inPos = Len(input)
  /\ IF Len(linesBuffer) > 0
     THEN /\ disk' = WriteFile(disk, getChunkPath(chunkIndex), linesBuffer)
          /\ chunkFiles' = Append(chunkFiles, getChunkPath(chunkIndex))
     ELSE UNCHANGED <<disk, chunkFiles>>
  /\ pc' = AfterSplit
  /\ UNCHANGED <<cfgVars, hierVars, kWayResult, verifyVars, tempDirExists, err, inPos, linesBuffer, currentChunkSize,
                 chunkIndex, sortVars, mergeVars>>

(***************************************************************************)
(* Sorter (index.js 506-667) and the sorter worker (index.js 88-153)        *)
(***************************************************************************)
\* maxWorkersOf with Math.max in the place of Math.min
maxWorkersOfMaxForMin(o, ncpus) ==
  IF o.maxWorkers # 0 THEN o.maxWorkers ELSE Max(1, Max(DefaultWorkerCap, ncpus))

\* options.maxWorkers || Math.max(1, Math.min(4, os.cpus().length))
maxWorkersOf(o, ncpus) ==
  IF o.maxWorkers # 0 THEN o.maxWorkers ELSE Max(1, Min(DefaultWorkerCap, ncpus))

\* !useWorkers || chunkFiles.length <= 1
Sequential == ~opts.useWorkers \/ Len(chunkFiles) <= 1

\* workerPool.find((w) => !w.busy): the first free slot, -1 for undefined
availableWorker(pool) ==
  IF \E i \in DOMAIN pool : ~pool[i]
  THEN CHOOSE i \in DOMAIN pool : ~pool[i] /\ \A j \in DOMAIN pool : ~pool[j] => i <= j
  ELSE -1

\* the scheduler's state as processNextChunk reads and writes it
Sched == [pool |-> workerPool, workers |-> workers, results |-> results,
          completed |-> completedChunks, promise |-> promise]

\* a promise that every resolve and reject settles anew
SettleAgain(p, how) == how

\* resolve and reject settle a pending promise and do nothing to a settled one
Settle(p, how) == IF p = "pending" THEN how ELSE p

\* processNextChunk that always dispatches the first chunk
processNextChunkFirstChunk(st, files) ==
  IF st.completed = Len(files)
  THEN [st EXCEPT !.promise = Settle(@, "resolved")]
  ELSE IF availableWorker(st.pool) = -1 THEN st
  ELSE IF st.completed >= Len(files) THEN st
  ELSE LET slot == availableWorker(st.pool)
       IN [st EXCEPT !.pool[slot] = TRUE,
                     !.workers = Append(@, [slot |-> slot, chunkIndex |-> 0,
                                            chunkPath |-> files[1],
                                            pc |-> "read", lines |-> <<>>])]

\* the closure processNextChunk: resolve when all chunks are counted, else
\* start a worker on the chunk at index completedChunks in a free slot
processNextChunk(st, files) ==
  IF st.completed = Len(files)
  THEN [st EXCEPT !.promise = Settle(@, "resolved")]
  ELSE IF availableWorker(st.pool) = -1 THEN st
  ELSE IF st.completed >= Len(files) THEN st
  ELSE LET slot == availableWorker(st.pool)
           idx == st.completed
       IN [st EXCEPT !.pool[slot] = TRUE,
                     !.workers = Append(@, [slot |-> slot, chunkIndex |-> idx,
                                            chunkPath |-> files[idx + 1],
                                            pc |-> "read", lines |-> <<>>])]

\* for (let i = 0; i < maxWorkers && i < chunkFiles.length; i++) processNextChunk()
RECURSIVE StartInitialWorkers(_, _, _)
StartInitialWorkers(st, files, count) ==
  IF count = 0 THEN st
  ELSE processNextChunk(StartInitialWorkers(st, files, count - 1), files)

\* sortChunks up to its first await: the sequential loop, or the pool and
\* the first workers
SortChunksCall ==
  /\ pc = "sort"
  /\ IF Sequential
     THEN /\ pc' = "seq"
          /\ UNCHANGED <<workerPool, workers, promise>>
     ELSE LET mw == maxWorkersOf(opts, cpus)
              st0 == [Sched EXCEPT !.pool = [i \in 0 .. mw - 1 |-> FALSE]]
              st == StartInitialWorkers(st0, chunkFiles, Min(mw, Len(chunkFiles)))
          IN /\ workerPool' = st.pool
             /\ workers' = st.workers
             /\ promise' = st.promise
             /\ pc' = "await_sort"
  /\ UNCHANGED <<cfgVars, hierVars, kWayResult, verifyVars, disk, tempDirExists, err, splitVars, seqIdx, results,
                 completedChunks, mergeVars>>

\* the inline Sorter.sortChunk of chunk seqIdx: read, sort, write the sorted
\* file; a chunk file that cannot be read rejects sortChunks
SeqSortWrite ==
  /\ pc = "seq"
  /\ seqIdx < Len(chunkFiles)
  /\ LET chunkPath == chunkFiles[seqIdx + 1]
     IN IF Exists(chunkPath)
        THEN /\ disk' = WriteFile(disk, sortedPathOf(chunkPath), sortLines(disk[chunkPath]))
             /\ pc' = "seq_unlink"
             /\ err' = err
        ELSE /\ pc' = "failed"
             /\ err' = "sortChunks"
             /\ disk' = disk
  /\ UNCHANGED <<cfgVars, hierVars, kWayResult, verifyVars, tempDirExists, splitVars, sortVars, mergeVars>>

\* ... then unlink the original and push the sorted path
SeqSortUnlink ==
  /\ pc = "seq_unlink"
  /\ LET chunkPath == chunkFiles[seqIdx + 1]
     IN /\ disk' = Unlink(disk, chunkPath)
        /\ results' = ArrSet(results, seqIdx, sortedPathOf(chunkPath))
  /\ seqIdx' = seqIdx + 1
  /\ pc' = "seq"
  /\ UNCHANGED <<cfgVars, hierVars, kWayResult, verifyVars, tempDirExists, err, splitVars, workerPool, completedChunks,
                 promise, workers, mergeVars>>

\* where the caller of sortChunks goes on
AfterSort == IF entry = "externalSort" THEN "merge" ELSE "returned"

\* the sequential loop is over: return sortedChunks
SeqSortReturn ==
  /\ pc = "seq"
  /\ seqIdx = Len(chunkFiles)
  /\ pc' = AfterSort
  /\ UNCHANGED <<cfgVars, hierVars, kWayResult, verifyVars, disk, tempDirExists, err, splitVars, sortVars, mergeVars>>

\* the sorted lines the worker writes for the chunk it read
workerSortedLines(data) == sortLines(filterLines(splitOnNewLine(data)))

\* the non-empty proper prefixes of a line: what a stream holds of a line it
\* has read only in part
ProperPrefixes(line) == { SubSeq(line, 1, k) : k \in 1 .. Len(line) - 1 }

SetWorker(w, f, v) == [workers EXCEPT ![w][f] = v]

\* worker: fs.readFileSync(chunkPath); a missing file is posted as a failure
WorkerRead(w) ==
  /\ workers[w].pc = "read"
  /\ IF Exists(workers[w].chunkPath)
     THEN workers' = [workers EXCEPT ![w].pc = "open", ![w].lines = disk[workers[w].chunkPath]]
     ELSE workers' = SetWorker(w, "pc", "msg_fail")
  /\ UNCHANGED <<cfgVars, hierVars, kWayResult, verifyVars, disk, tempDirExists, pc, err, splitVars, seqIdx, workerPool,
                 results, completedChunks, promise, mergeVars>>

\* worker: fs.writeFileSync opens the sorted path for writing, which creates it
\* or cuts it to length 0.  A read stream that is open on the file has read
\* whole blocks, so it may hold the first part of its next line.
WorkerOpenForWrite(w) ==
  /\ workers[w].pc = "open"
  /\ LET path == sortedPathOf(workers[w].chunkPath)
     IN IF tempDirExists
        THEN /\ disk' = WriteFile(disk, path, <<>>)
             /\ workers' = SetWorker(w, "pc", "write")
             /\ \E part \in [{ r \in DOMAIN readers :
                                 /\ readers[r].path = path
                                 /\ Exists(path)
                                 /\ ~readers[r].ended
                                 /\ readers[r].pos < Len(disk[path]) }
                             -> Lines \cup UNION { ProperPrefixes(l) : l \in Lines }] :
                  /\ \A r \in DOMAIN part :
                       part[r] \in {<<>>} \cup ProperPrefixes(disk[path][readers[r].pos + 1])
                  /\ readers' = [r \in DOMAIN readers |->
                                   IF r \in DOMAIN part
                                   THEN [readers[r] EXCEPT !.buffered = part[r]]
                                   ELSE readers[r]]
        ELSE /\ workers' = SetWorker(w, "pc", "msg_fail")
             /\ UNCHANGED <<disk, readers>>
  /\ UNCHANGED <<cfgVars, hierVars, kWayResult, verifyVars, tempDirExists, pc, err, splitVars, seqIdx, workerPool, results,
                 completedChunks, promise, iter, existingChunks, heap, linesWritten>>

\* worker: fs.writeFileSync writes sortedLines.join("\n") + "\n"
WorkerWrite(w) ==
  /\ workers[w].pc = "write"
  /\ LET path == sortedPathOf(workers[w].chunkPath)
     IN disk' = IF Exists(path)
                THEN WriteFile(disk, path, writtenJoined(workerSortedLines(workers[w].lines)))
                ELSE disk
  /\ workers' = SetWorker(w, "pc", "unlink")
  /\ UNCHANGED <<cfgVars, hierVars, kWayResult, verifyVars, tempDirExists, pc, err, splitVars, seqIdx, workerPool, results,
                 completedChunks, promise, mergeVars>>

\* worker: fs.unlinkSync(chunkPath), a failure is only a warning; then the
\* sorted path is posted
WorkerUnlink(w) ==
  /\ workers[w].pc = "unlink"
  /\ disk' = Unlink(disk, workers[w].chunkPath)
  /\ workers' = SetWorker(w, "pc", "msg_ok")
  /\ UNCHANGED <<cfgVars, hierVars, kWayResult, verifyVars, tempDirExists, pc, err, splitVars, seqIdx, workerPool, results,
                 completedChunks, promise, mergeVars>>

\* the continuation of a settled sortChunks promise runs before any other event
MainIdle == ~(pc = "await_sort" /\ promise # "pending")

\* worker.on("message"): a success is recorded and the next chunk dispatched,
\* a failure rejects
OnMessage(w) ==
  /\ MainIdle
  /\ workers[w].pc \in {"msg_ok", "msg_fail"}
  /\ IF workers[w].pc = "msg_ok"
     THEN LET st0 == [Sched EXCEPT
                        !.results = ArrSet(@, workers[w].chunkIndex,
                                           sortedPathOf(workers[w].chunkPath)),
                        !.completed = @ + 1,
                        !.pool[workers[w].slot] = FALSE,
                        !.workers[w].pc = "reported_ok"]
              st == processNextChunk(st0, chunkFiles)
          IN /\ results' = st.results
             /\ completedChunks' = st.completed
             /\ workerPool' = st.pool
             /\ workers' = st.workers
             /\ promise' = st.promise
     ELSE /\ promise' = Settle(promise, "rejected")
          /\ workers' = SetWorker(w, "pc", "reported_fail")
          /\ UNCHANGED <<results, completedChunks, workerPool>>
  /\ UNCHANGED <<cfgVars, hierVars, kWayResult, verifyVars, disk, tempDirExists, pc, err, splitVars, seqIdx, mergeVars>>

\* await sorter.sortChunks(...): the caller goes on, or gets the rejection
SortChunksSettled ==
  /\ pc = "await_sort"
  /\ promise # "pending"
  /\ IF promise = "resolved"
     THEN pc' = AfterSort /\ err' = err
     ELSE pc' = "failed" /\ err' = "sortChunks"
  /\ UNCHANGED <<cfgVars, hierVars, kWayResult, verifyVars, disk, tempDirExists, splitVars, sortVars, mergeVars>>

(***************************************************************************)
(* MinHeap (index.js 163-242).  The heap is the sequence this.heap of       *)
(* reader numbers; index i of the array is position i + 1 of the sequence.  *)
(***************************************************************************)
\* the comparator _kWayMerge gives the heap (index.js 338-348)
compareFn(rs, a, b) ==
  IF rs[a].current = Null /\ rs[b].current = Null THEN 0
  ELSE IF rs[a].current = Null THEN 1
  ELSE IF rs[b].current = Null THEN -1
  ELSE compareLines(rs[a].current, rs[b].current)

Swap(h, i, j) == [h EXCEPT ![i + 1] = h[j + 1], ![j + 1] = h[i + 1]]

\* Math.floor((index - 1) / 2); index 0 gives -1
ParentOf(index) == IF index = 0 THEN -1 ELSE (index - 1) \div 2

RECURSIVE siftUp(_, _, _)
siftUp(rs, h, index) ==
  IF index > 0 /\ compareFn(rs, h[index + 1], h[ParentOf(index) + 1]) < 0
  THEN siftUp(rs, Swap(h, index, ParentOf(index)), ParentOf(index))
  ELSE h

RECURSIVE siftDown(_, _, _)
siftDown(rs, h, index) ==
  LET left == 2 * index + 1
      right == 2 * index + 2
      s1 == IF left < Len(h) /\ compareFn(rs, h[left + 1], h[index + 1]) < 0
            THEN left ELSE index
      smallest == IF right < Len(h) /\ compareFn(rs, h[right + 1], h[s1 + 1]) < 0
                  THEN right ELSE s1
  IN IF smallest # index THEN siftDown(rs, Swap(h, index, smallest), smallest) ELSE h

\* an insert that pushes the element and does not sift it up
heapInsertNoSiftUp(rs, h, element) == Append(h, element)

\* MinHeap.insert
heapInsert(rs, h, element) == siftUp(rs, Append(h, element), Len(h))

\* extractMin that moves the last element to the root and does not sift it down
extractMinNoSiftDown(rs, h) ==
  LET last == h[Len(h)]
      popped == SubSeq(h, 1, Len(h) - 1)
  IN [min |-> h[1],
      heap |-> IF Len(popped) > 0 THEN [popped EXCEPT ![1] = last] ELSE popped]

\* MinHeap.extractMin on a heap that is not empty: the minimum and the heap left
extractMin(rs, h) ==
  LET last == h[Len(h)]
      popped == SubSeq(h, 1, Len(h) - 1)
  IN [min |-> h[1],
      heap |-> IF Len(popped) > 0 THEN siftDown(rs, [popped EXCEPT ![1] = last], 0)
               ELSE popped]

(***************************************************************************)
(* Merger._kWayMerge (index.js 273-436)                                     *)
(***************************************************************************)
\* the sortedChunks argument of merge and _kWayMerge: the array the caller
\* holds, which for externalSort is the results array of sortChunks itself
sortedChunks == results

\* options.maxOpenFiles || 100
maxOpenFilesOf(o) == IF o.maxOpenFiles # 0 THEN o.maxOpenFiles ELSE DefaultMaxOpenFiles

\* reader.reader.next(): the next line of the file as it is now.  At the end
\* of the file the stream ends, and readline gives what the stream still
\* holds of an unfinished line as a last line.  A stream whose file is gone
\* or whose read has failed makes next() throw.
ReaderNext(r, d) ==
  IF r.ended THEN [r |-> r, done |-> TRUE, value |-> Null, threw |-> FALSE]
  ELSE IF r.path \notin DOMAIN d \/ r.errored
  THEN [r |-> [r EXCEPT !.ended = TRUE], done |-> TRUE, value |-> Null, threw |-> TRUE]
  ELSE IF r.pos < Len(d[r.path])
  THEN [r |-> [r EXCEPT !.pos = @ + 1, !.buffered = <<>>], done |-> FALSE,
        value |-> d[r.path][r.pos + 1], threw |-> FALSE]
  ELSE IF r.buffered # <<>>
  THEN [r |-> [r EXCEPT !.ended = TRUE, !.buffered = <<>>], done |-> FALSE,
        value |-> r.buffered, threw |-> FALSE]
  ELSE [r |-> [r EXCEPT !.ended = TRUE], done |-> TRUE, value |-> Null, threw |-> FALSE]

\* the assignments to reader.done and reader.current after the first next()
\* (index.js 324-334)
Advance(r, d) ==
  LET n == ReaderNext(r, d)
  IN IF n.threw THEN [n.r EXCEPT !.done = TRUE, !.current = Null]
     ELSE [n.r EXCEPT !.done = n.done, !.current = IF n.done THEN Null ELSE n.value]

\* the same after a next() of the merge loop (index.js 379-393): the catch
\* sets reader.done and leaves reader.current
AdvanceInLoop(r, d) ==
  LET n == ReaderNext(r, d)
  IN IF n.threw THEN [n.r EXCEPT !.done = TRUE]
     ELSE [n.r EXCEPT !.done = n.done, !.current = IF n.done THEN Null ELSE n.value]

\* the sortedChunks and outputFile arguments of the _kWayMerge call under way:
\* those of merge, or a group of a level and its merged chunk
kWayChunks == IF mergePath = "hier" THEN group ELSE sortedChunks
kWayOutput == IF mergePath = "hier" THEN mergedChunkPath ELSE outputFile

\* a slice that takes one chunk too many
sliceOfLevelOneMore(level, i, maxOpenFiles) ==
  SubSeq(level, i + 1, Min(i + maxOpenFiles + 1, Len(level)))

\* currentLevel.slice(i, i + maxOpenFiles), as a sequence
sliceOfLevel(level, i, maxOpenFiles) == SubSeq(level, i + 1, Min(i + maxOpenFiles, Len(level)))

\* merged_level<levelIndex>_group<Math.floor(i / maxOpenFiles)>.txt of tempDir
mergedPathOf(level, i, maxOpenFiles) == <<"merged", level, i \div maxOpenFiles>>

\* Merger.merge: the k-way merge when the chunks are few enough, else the
\* hierarchical merge up to its level loop
MergeCall ==
  /\ pc = "merge"
  /\ IF ArrLen(sortedChunks) <= maxOpenFilesOf(opts)
     THEN /\ pc' = "preflight"
          /\ mergePath' = "kway"
          /\ UNCHANGED <<currentLevel, levelIndex, err>>
     ELSE IF ArrAt(sortedChunks, 0) = Undefined
     THEN /\ pc' = "failed"
          /\ err' = "path.dirname"
          /\ mergePath' = "hier"
          /\ UNCHANGED <<currentLevel, levelIndex>>
     ELSE /\ pc' = "level"
          /\ mergePath' = "hier"
          /\ currentLevel' = [i \in 1 .. ArrLen(sortedChunks) |-> ArrAt(sortedChunks, i - 1)]
          /\ levelIndex' = 0
          /\ err' = err
  /\ iter' = 0
  /\ existingChunks' = <<>>
  /\ UNCHANGED <<cfgVars, kWayResult, verifyVars, disk, tempDirExists, splitVars, sortVars,
                 readers, heap, linesWritten, nextLevel, groupStart, group, mergedChunkPath>>

\* while (currentLevel.length > 1): a new level begins
HierLevelStart ==
  /\ pc = "level"
  /\ Len(currentLevel) > 1
  /\ levelIndex < MaxLevels
  /\ levelIndex' = levelIndex + 1
  /\ nextLevel' = <<>>
  /\ groupStart' = 0
  /\ pc' = "group"
  /\ UNCHANGED <<cfgVars, kWayResult, verifyVars, disk, tempDirExists, err, splitVars, sortVars,
                 mergeVars, mergePath, currentLevel, group, mergedChunkPath>>

\* the last group of a level is a single chunk: it goes to the next level as
\* it is
HierPassThrough ==
  /\ pc = "group"
  /\ groupStart < Len(currentLevel)
  /\ LET m == maxOpenFilesOf(opts)
         g == sliceOfLevel(currentLevel, groupStart, m)
     IN /\ Len(g) = 1 /\ groupStart + m >= Len(currentLevel)
        /\ nextLevel' = Append(nextLevel, g[1])
        /\ groupStart' = groupStart + m
  /\ UNCHANGED <<cfgVars, kWayResult, verifyVars, disk, tempDirExists, pc, err, splitVars,
                 sortVars, mergeVars, mergePath, currentLevel, levelIndex, group,
                 mergedChunkPath>>

\* any other group is merged by _kWayMerge into a merged chunk of the level
HierMergeGroup ==
  /\ pc = "group"
  /\ groupStart < Len(currentLevel)
  /\ LET m == maxOpenFilesOf(opts)
         g == sliceOfLevel(currentLevel, groupStart, m)
     IN /\ ~(Len(g) = 1 /\ groupStart + m >= Len(currentLevel))
        /\ group' = ArrOfSeq(g)
        /\ mergedChunkPath' = mergedPathOf(levelIndex, groupStart, m)
  /\ iter' = 0
  /\ existingChunks' = <<>>
  /\ pc' = "preflight"
  /\ UNCHANGED <<cfgVars, kWayResult, verifyVars, disk, tempDirExists, err, splitVars, sortVars,
                 readers, heap, linesWritten, mergePath, currentLevel, nextLevel, levelIndex,
                 groupStart>>

\* the groups of the level are done: currentLevel = nextLevel
HierLevelEnd ==
  /\ pc = "group"
  /\ groupStart >= Len(currentLevel)
  /\ currentLevel' = nextLevel
  /\ pc' = "level"
  /\ UNCHANGED <<cfgVars, kWayResult, verifyVars, disk, tempDirExists, err, splitVars, sortVars,
                 mergeVars, mergePath, nextLevel, levelIndex, groupStart, group,
                 mergedChunkPath>>

\* fs.rename(oldPath, newPath)
Rename(d, oldPath, newPath) == Unlink(WriteFile(d, newPath, d[oldPath]), oldPath)

\* PreflightStep that keeps every path without fs.access
PreflightStepNoAccess ==
  /\ pc = "preflight"
  /\ iter < ArrLen(kWayChunks)
  /\ existingChunks' = Append(existingChunks, ArrAt(kWayChunks, iter))
  /\ iter' = iter + 1
  /\ UNCHANGED <<cfgVars, hierVars, kWayResult, verifyVars, disk, tempDirExists, pc, err, splitVars, sortVars, readers, heap,
                 linesWritten>>

\* one turn of the loop over sortedChunks: fs.access, keep the readable path
PreflightStep ==
  /\ pc = "preflight"
  /\ iter < ArrLen(kWayChunks)
  /\ LET chunkPath == ArrAt(kWayChunks, iter)
     IN existingChunks' = IF chunkPath # Undefined /\ Exists(chunkPath)
                          THEN Append(existingChunks, chunkPath)
                          ELSE existingChunks
  /\ iter' = iter + 1
  /\ UNCHANGED <<cfgVars, hierVars, kWayResult, verifyVars, disk, tempDirExists, pc, err, splitVars, sortVars, readers, heap,
                 linesWritten>>

\* after the loop: fail without a readable chunk, else create the readers
PreflightDone ==
  /\ pc = "preflight"
  /\ iter >= ArrLen(kWayChunks)
  /\ IF Len(existingChunks) = 0
     THEN /\ pc' = "failed"
          /\ err' = "no valid chunk files found for merging"
          /\ UNCHANGED <<readers, iter>>
     ELSE /\ readers' = [i \in 1 .. Len(existingChunks) |->
                           [path |-> existingChunks[i], pos |-> 0, current |-> Null,
                            done |-> FALSE, buffered |-> <<>>, ended |-> FALSE,
                            errored |-> FALSE]]
          /\ iter' = 1
          /\ pc' = "prime"
          /\ err' = err
  /\ UNCHANGED <<cfgVars, hierVars, kWayResult, verifyVars, disk, tempDirExists, splitVars, sortVars, existingChunks, heap,
                 linesWritten>>

\* one turn of the loop that reads the first line of every reader
PrimeStep ==
  /\ pc = "prime"
  /\ iter <= Len(readers)
  /\ readers' = [readers EXCEPT ![iter] = Advance(@, disk)]
  /\ iter' = iter + 1
  /\ UNCHANGED <<cfgVars, hierVars, kWayResult, verifyVars, disk, tempDirExists, pc, err, splitVars, sortVars, existingChunks,
                 heap, linesWritten>>

\* a fill of the heap that inserts every reader
RECURSIVE InsertValidAll(_, _, _)
InsertValidAll(rs, h, upTo) ==
  IF upTo = 0 THEN h ELSE heapInsert(rs, InsertValidAll(rs, h, upTo - 1), upTo)

\* for (const reader of readers) if (!reader.done && reader.current !== null) heap.insert
RECURSIVE InsertValid(_, _, _)
InsertValid(rs, h, upTo) ==
  IF upTo = 0 THEN h
  ELSE LET before == InsertValid(rs, h, upTo - 1)
       IN IF ~rs[upTo].done /\ rs[upTo].current # Null
          THEN heapInsert(rs, before, upTo)
          ELSE before

\* the heap is filled and the output stream created
HeapInit ==
  /\ pc = "prime"
  /\ iter > Len(readers)
  /\ heap' = InsertValid(readers, <<>>, Len(readers))
  /\ disk' = WriteFile(disk, kWayOutput, <<>>)
  /\ linesWritten' = 0
  /\ pc' = "loop"
  /\ UNCHANGED <<cfgVars, hierVars, kWayResult, verifyVars, tempDirExists, err, splitVars, sortVars, iter, existingChunks,
                 readers>>

\* a turn of the loop that counts a line only when its reader goes back in
MergeStepCountOnReinsert ==
  /\ pc = "loop"
  /\ Len(heap) > 0
  /\ LET ex == extractMin(readers, heap)
         reader == ex.min
         rs == [readers EXCEPT ![reader] = AdvanceInLoop(@, disk)]
         back == ~rs[reader].done /\ rs[reader].current # Null
     IN /\ disk' = WriteFile(disk, kWayOutput, Append(disk[kWayOutput], readers[reader].current))
        /\ linesWritten' = IF back THEN linesWritten + 1 ELSE linesWritten
        /\ readers' = rs
        /\ heap' = IF back THEN heapInsert(rs, ex.heap, reader) ELSE ex.heap
  /\ UNCHANGED <<cfgVars, hierVars, kWayResult, verifyVars, tempDirExists, pc, err, splitVars,
                 sortVars, iter, existingChunks>>

\* one turn of while (heap.size() > 0): write the smallest line, advance its
\* reader, put the reader back when it has a line
MergeStep ==
  /\ pc = "loop"
  /\ Len(heap) > 0
  /\ LET ex == extractMin(readers, heap)
         reader == ex.min
         rs == [readers EXCEPT ![reader] = AdvanceInLoop(@, disk)]
     IN /\ disk' = WriteFile(disk, kWayOutput, Append(disk[kWayOutput], readers[reader].current))
        /\ linesWritten' = linesWritten + 1
        /\ readers' = rs
        /\ heap' = IF ~rs[reader].done /\ rs[reader].current # Null
                   THEN heapInsert(rs, ex.heap, reader)
                   ELSE ex.heap
  /\ UNCHANGED <<cfgVars, hierVars, kWayResult, verifyVars, tempDirExists, pc, err, splitVars, sortVars, iter, existingChunks>>

\* where the caller of merge goes on
AfterMerge == IF entry = "externalSort" THEN "cleanup" ELSE "returned"

RECURSIVE UnlinkAll(_, _)
UnlinkAll(d, paths) == IF paths = <<>> THEN d ELSE UnlinkAll(Unlink(d, Head(paths)), Tail(paths))

\* the heap is empty: end the output stream, close the readers, unlink the
\* chunk files that passed the pre-flight check.  _kWayMerge has no return
\* statement.  merge then returns; _hierarchicalMerge pushes the merged chunk
\* and goes to the next group
MergeFinish ==
  /\ pc = "loop"
  /\ Len(heap) = 0
  /\ readers' = [r \in DOMAIN readers |-> [readers[r] EXCEPT !.ended = TRUE]]
  /\ disk' = UnlinkAll(disk, existingChunks)
  /\ kWayResult' = Undefined
  /\ IF mergePath = "hier"
     THEN /\ nextLevel' = Append(nextLevel, mergedChunkPath)
          /\ groupStart' = groupStart + maxOpenFilesOf(opts)
          /\ pc' = "group"
     ELSE /\ pc' = AfterMerge
          /\ UNCHANGED <<nextLevel, groupStart>>
  /\ UNCHANGED <<cfgVars, verifyVars, tempDirExists, err, splitVars, sortVars, iter,
                 existingChunks, heap, linesWritten, mergePath, currentLevel, levelIndex,
                 group, mergedChunkPath>>

\* one file is left: rename it to the output file
HierRename ==
  /\ pc = "level"
  /\ Len(currentLevel) <= 1
  /\ IF Len(currentLevel) = 1 /\ currentLevel[1] # outputFile
     THEN IF currentLevel[1] # Undefined /\ Exists(currentLevel[1])
          THEN /\ disk' = Rename(disk, currentLevel[1], outputFile)
               /\ pc' = AfterMerge
               /\ err' = err
          ELSE /\ pc' = "failed"
               /\ err' = "rename"
               /\ disk' = disk
     ELSE /\ pc' = AfterMerge
          /\ UNCHANGED <<disk, err>>
  /\ UNCHANGED <<cfgVars, hierVars, kWayResult, verifyVars, tempDirExists, splitVars, sortVars,
                 mergeVars>>

(***************************************************************************)
(* externalSort (index.js 18-62) and cleanupTempDir (part_000 43-59)        *)
(***************************************************************************)
\* cleanupTempDir: unlink every file of the directory ...
CleanupFiles ==
  /\ pc = "cleanup"
  /\ IF opts.cleanup
     THEN /\ disk' = [p \in { q \in DOMAIN disk : ~InTempDir(q) } |-> disk[p]]
          /\ pc' = "rmdir"
     ELSE /\ pc' = "done"
          /\ UNCHANGED disk
  /\ UNCHANGED <<cfgVars, hierVars, kWayResult, verifyVars, tempDirExists, err, splitVars, sortVars, mergeVars>>

\* ... and remove the directory, which fails (a warning) when it is not empty
CleanupRmdir ==
  /\ pc = "rmdir"
  /\ tempDirExists' = (\E q \in DOMAIN disk : InTempDir(q))
  /\ pc' = "done"
  /\ UNCHANGED <<cfgVars, hierVars, kWayResult, verifyVars, disk, err, splitVars, sortVars, mergeVars>>

(***************************************************************************)
(* verifySortedFile (part_000 145-176)                                      *)
(***************************************************************************)
\* String.prototype.localeCompare on strings of spaces and ASCII letters: the
\* collation compares the primary weights first (the space before the
\* letters, the letters in alphabetical order whatever their case) and, when
\* these are all equal, the case (lower case first)
primaryWeight(c) ==
  IF c = 32 THEN 1
  ELSE IF c \in 65 .. 90 THEN 10 + (c - 65)
  ELSE IF c \in 97 .. 122 THEN 10 + (c - 97)
  ELSE 100 + c

tertiaryWeight(c) == IF c \in 65 .. 90 THEN 1 ELSE 0

primaryKey(s) == [i \in 1 .. Len(s) |-> primaryWeight(s[i])]
tertiaryKey(s) == [i \in 1 .. Len(s) |-> tertiaryWeight(s[i])]

localeCompare(a, b) ==
  IF LineLess(primaryKey(a), primaryKey(b)) THEN -1
  ELSE IF LineLess(primaryKey(b), primaryKey(a)) THEN 1
  ELSE IF LineLess(tertiaryKey(a), tertiaryKey(b)) THEN -1
  ELSE IF LineLess(tertiaryKey(b), tertiaryKey(a)) THEN 1
  ELSE 0

\* the comparison of a line with the line before it
verifyCompare(a, b) == localeCompare(a, b)

\* one turn of the for-await loop: count the line, compare it with the one
\* before, stop at the first line that is smaller
VerifyLine ==
  /\ pc = "verify"
  /\ isSorted
  /\ lineCount < Len(disk[outputFile])
  /\ LET line == disk[outputFile][lineCount + 1]
     IN /\ lineCount' = lineCount + 1
        /\ IF previousLine # Null /\ verifyCompare(line, previousLine) < 0
           THEN /\ isSorted' = FALSE
                /\ previousLine' = previousLine
           ELSE /\ isSorted' = isSorted
                /\ previousLine' = line
  /\ UNCHANGED <<cfgVars, hierVars, kWayResult, disk, tempDirExists, pc, err, splitVars,
                 sortVars, mergeVars>>

\* the loop is over or was left: return isSorted
VerifyReturn ==
  /\ pc = "verify"
  /\ ~isSorted \/ lineCount = Len(disk[outputFile])
  /\ pc' = "returned"
  /\ UNCHANGED <<cfgVars, hierVars, kWayResult, verifyVars, disk, tempDirExists, err, splitVars,
                 sortVars, mergeVars>>

(***************************************************************************)
(* Faults of the environment, for sortChunks on its own.                    *)
(***************************************************************************)
\* the worker thread dies before it reads: the Worker emits "error"
WorkerCrash(w) ==
  /\ workers[w].pc = "read"
  /\ workers' = SetWorker(w, "pc", "crashed")
  /\ UNCHANGED <<cfgVars, hierVars, kWayResult, verifyVars, disk, tempDirExists, pc, err, splitVars, seqIdx, workerPool,
                 results, completedChunks, promise, mergeVars>>

\* worker.on("error"): reject
OnError(w) ==
  /\ MainIdle
  /\ workers[w].pc = "crashed"
  /\ promise' = Settle(promise, "rejected")
  /\ workers' = SetWorker(w, "pc", "reported_error")
  /\ UNCHANGED <<cfgVars, hierVars, kWayResult, verifyVars, disk, tempDirExists, pc, err, splitVars, seqIdx, workerPool,
                 results, completedChunks, mergeVars>>

\* the chunk file of a reader becomes unreadable while the merge reads: the
\* reader's next read fails
ChunkUnreadable(r) ==
  /\ pc \in {"prime", "loop"}
  /\ ~readers[r].ended
  /\ Exists(readers[r].path)
  /\ disk' = Unlink(disk, readers[r].path)
  /\ UNCHANGED <<cfgVars, hierVars, kWayResult, verifyVars, tempDirExists, pc, err, splitVars,
                 sortVars, mergeVars>>

\* a read of a reader's stream fails (an I/O error) while the chunk file
\* stays where it is: the reader's next read throws
ReadError(r) ==
  /\ pc \in {"prime", "loop"}
  /\ ~readers[r].ended
  /\ ~readers[r].errored
  /\ Exists(readers[r].path)
  /\ readers' = [readers EXCEPT ![r].errored = TRUE]
  /\ UNCHANGED <<cfgVars, hierVars, kWayResult, verifyVars, disk, tempDirExists, pc, err,
                 splitVars, sortVars, iter, existingChunks, heap, linesWritten>>

(***************************************************************************)
(* Initial states and specifications.                                       *)
(***************************************************************************)
NoFiles == [p \in {} |-> <<>>]

InitRest ==
  /\ tempDirExists = TRUE
  /\ err = "none"
  /\ inPos = 0 /\ linesBuffer = <<>> /\ currentChunkSize = 0 /\ chunkIndex = 0
  /\ seqIdx = 0 /\ workerPool = <<>> /\ completedChunks = 0
  /\ promise = "pending" /\ workers = <<>>
  /\ iter = 0 /\ existingChunks = <<>> /\ readers = <<>> /\ heap = <<>>
  /\ linesWritten = 0
  /\ mergePath = "none" /\ currentLevel = <<>> /\ nextLevel = <<>> /\ levelIndex = 0
  /\ groupStart = 0 /\ group = <<>> /\ mergedChunkPath = Undefined
  /\ kWayResult = <<"none", 0>>
  /\ previousLine = Null /\ lineCount = 0 /\ isSorted = TRUE

\* externalSort(inputFile, outputFile, {maxMemoryBytes}) after createTempDir
Init ==
  /\ entry = "externalSort"
  /\ input \in SeqsUpTo(Lines, MaxLines)
  /\ \E m \in MemoryBudgets :
       opts = [maxMemoryBytes |-> m, cleanup |-> TRUE, useWorkers |-> TRUE,
               maxWorkers |-> 0, maxOpenFiles |-> 0]
  /\ cpus \in 1 .. MaxCpus
  /\ disk = NoFiles
  /\ disk0 = disk
  /\ pc = "split"
  /\ chunkFiles = <<>>
  /\ results = <<>>
  /\ InitRest

Workers == DOMAIN workers

SortStep ==
  \/ SortChunksCall
  \/ SeqSortWrite
  \/ SeqSortUnlink
  \/ SeqSortReturn
  \/ SortChunksSettled
  \/ \E w \in Workers : WorkerRead(w)
  \/ \E w \in Workers : WorkerOpenForWrite(w)
  \/ \E w \in Workers : WorkerWrite(w)
  \/ \E w \in Workers : WorkerUnlink(w)
  \/ \E w \in Workers : OnMessage(w)

KWayStep ==
  \/ MergeCall
  \/ PreflightStep
  \/ PreflightDone
  \/ PrimeStep
  \/ HeapInit
  \/ MergeStep
  \/ MergeFinish

Next ==
  \/ SplitLine
  \/ SplitFinish
  \/ SortStep
  \/ KWayStep
  \/ CleanupFiles
  \/ CleanupRmdir

Spec == Init /\ [][Next]_vars

\* split(inputFile, tempDir) of a Splitter made with {maxMemoryBytes}
SplitInit ==
  /\ entry = "split"
  /\ input \in SeqsUpTo(Lines, MaxLines)
  /\ \E m \in MemoryBudgets :
       opts = [maxMemoryBytes |-> m, cleanup |-> FALSE, useWorkers |-> TRUE,
               maxWorkers |-> 0, maxOpenFiles |-> 0]
  /\ cpus = 1
  /\ disk = NoFiles
  /\ disk0 = disk
  /\ pc = "split"
  /\ chunkFiles = <<>>
  /\ results = <<>>
  /\ InitRest

SplitNext == SplitLine \/ SplitFinish

SplitSpec == SplitInit /\ [][SplitNext]_vars

\* verifySortedFile(filePath) on a file of any lines
VerifyInit ==
  /\ entry = "verify"
  /\ input = <<>>
  /\ opts = [maxMemoryBytes |-> 0, cleanup |-> FALSE, useWorkers |-> TRUE,
             maxWorkers |-> 0, maxOpenFiles |-> 0]
  /\ cpus = 1
  /\ \E lines \in SeqsUpTo(Lines, MaxLines) : disk = WriteFile(NoFiles, outputFile, lines)
  /\ disk0 = disk
  /\ pc = "verify"
  /\ chunkFiles = <<>>
  /\ results = <<>>
  /\ InitRest

VerifyNext == VerifyLine \/ VerifyReturn

VerifySpec == VerifyInit /\ [][VerifyNext]_vars

\* the lines of the chunk files sortChunks is given on its own
SampleChunk(i) ==
  IF i % 2 = 0 THEN << <<97, 97>>, <<32>>, <<66>> >> ELSE << <<97, 66>>, <<66>> >>

\* sortChunks(chunkFiles, {useWorkers, maxWorkers}) on chunk files of which
\* some may be missing
SortInit ==
  /\ entry = "sortChunks"
  /\ input = <<>>
  /\ \E mw \in 0 .. MaxWorkersOpt, uw \in BOOLEAN :
       opts = [maxMemoryBytes |-> 0, cleanup |-> FALSE, useWorkers |-> uw,
               maxWorkers |-> mw, maxOpenFiles |-> 0]
  /\ cpus \in 1 .. MaxCpus
  /\ \E n \in 0 .. MaxChunks :
       /\ chunkFiles = [i \in 1 .. n |-> getChunkPath(i - 1)]
       /\ \E present \in SUBSET (0 .. n - 1) :
            /\ disk = [p \in { getChunkPath(i) : i \in present } |-> SampleChunk(p[2])]
  /\ disk0 = disk
  /\ pc = "sort"
  /\ results = <<>>
  /\ InitRest

SortNext ==
  \/ SortStep
  \/ \E w \in Workers : WorkerCrash(w)
  \/ \E w \in Workers : OnError(w)

SortSpec == SortInit /\ [][SortNext]_vars

\* a step of a worker thread
WorkerStep ==
  \E w \in Workers :
    WorkerRead(w) \/ WorkerOpenForWrite(w) \/ WorkerWrite(w) \/ WorkerUnlink(w)

\* a message of a worker is handled
MessageStep == \E w \in Workers : OnMessage(w)

\* sortChunks(chunkFiles, {maxWorkers}) on two or more chunk files of which
\* some may be missing
SortLiveInit ==
  /\ entry = "sortChunks"
  /\ input = <<>>
  /\ \E mw \in 1 .. MaxLiveWorkers :
       opts = [maxMemoryBytes |-> 0, cleanup |-> FALSE, useWorkers |-> TRUE,
               maxWorkers |-> mw, maxOpenFiles |-> 0]
  /\ cpus = 1
  /\ \E n \in 2 .. MaxLiveChunks :
       /\ chunkFiles = [i \in 1 .. n |-> getChunkPath(i - 1)]
       /\ \E present \in SUBSET (0 .. n - 1) :
            /\ disk = [p \in { getChunkPath(i) : i \in present } |-> SampleChunk(p[2])]
  /\ disk0 = disk
  /\ pc = "sort"
  /\ results = <<>>
  /\ InitRest

\* the steps of sortChunks with a pool
SortLiveNext ==
  \/ SortChunksCall
  \/ SortChunksSettled
  \/ \E w \in Workers : WorkerRead(w)
  \/ \E w \in Workers : WorkerOpenForWrite(w)
  \/ \E w \in Workers : WorkerWrite(w)
  \/ \E w \in Workers : WorkerUnlink(w)
  \/ \E w \in Workers : OnMessage(w)

\* sortChunks when no worker thread dies: every worker that was started runs
\* to its message, and the event loop handles every message
SortLiveSpec ==
  SortLiveInit /\ [][SortLiveNext]_vars /\ WF_vars(WorkerStep) /\ WF_vars(MessageStep)

IsSorted(s) == \A i \in 1 .. Len(s) - 1 : ~LineLess(s[i + 1], s[i])

\* the sorted files of at most `budget` lines in all for n chunk paths; a
\* path may have no file
RECURSIVE ChunkFilesOf(_, _)
ChunkFilesOf(n, budget) ==
  IF n = 0 THEN { <<>> }
  ELSE UNION { { <<c>> \o rest : rest \in ChunkFilesOf(n - 1, budget - Len(c.lines)) } :
               c \in { [exists |-> FALSE, lines |-> <<>>] }
                     \cup { [exists |-> TRUE, lines |-> s] :
                            s \in { t \in SeqsUpTo(MergeLines, budget) : IsSorted(t) } } }

\* merge(sortedChunks, outputFile) on sorted chunk files of which some may be
\* missing
MergeInit ==
  /\ entry = "merge"
  /\ input = <<>>
  /\ opts = [maxMemoryBytes |-> 0, cleanup |-> FALSE, useWorkers |-> TRUE,
             maxWorkers |-> 0, maxOpenFiles |-> 0]
  /\ cpus = 1
  /\ \E n \in 0 .. MaxMergeChunks :
       /\ chunkFiles = [i \in 1 .. n |-> getChunkPath(i - 1)]
       /\ \E files \in ChunkFilesOf(n, MaxMergeLines) :
            /\ results = [i \in 0 .. n - 1 |-> sortedPathOf(getChunkPath(i))]
            /\ disk = [p \in { sortedPathOf(getChunkPath(i - 1)) :
                               i \in { k \in 1 .. n : files[k].exists } }
                       |-> files[p[2] + 1].lines]
  /\ disk0 = disk
  /\ pc = "merge"
  /\ InitRest

MergeNext == KWayStep

MergeSpec == MergeInit /\ [][MergeNext]_vars

\* merge(sortedChunks, outputFile) on sorted chunk files that may become
\* unreadable during the merge
MergeFaultInit ==
  /\ entry = "merge"
  /\ input = <<>>
  /\ opts = [maxMemoryBytes |-> 0, cleanup |-> FALSE, useWorkers |-> TRUE,
             maxWorkers |-> 0, maxOpenFiles |-> 0]
  /\ cpus = 1
  /\ \E n \in 0 .. MaxFaultChunks :
       /\ chunkFiles = [i \in 1 .. n |-> getChunkPath(i - 1)]
       /\ \E files \in ChunkFilesOf(n, MaxFaultLines) :
            /\ results = [i \in 0 .. n - 1 |-> sortedPathOf(getChunkPath(i))]
            /\ disk = [p \in { sortedPathOf(getChunkPath(i - 1)) :
                               i \in { k \in 1 .. n : files[k].exists } }
                       |-> files[p[2] + 1].lines]
  /\ disk0 = disk
  /\ pc = "merge"
  /\ InitRest

MergeFaultNext ==
  \/ KWayStep
  \/ \E r \in DOMAIN readers : ChunkUnreadable(r)

MergeFaultSpec == MergeFaultInit /\ [][MergeFaultNext]_vars

\* merge(sortedChunks, outputFile) on sorted chunk files of which a read may
\* fail during the merge
ReadErrorNext ==
  \/ KWayStep
  \/ \E r \in DOMAIN readers : ReadError(r)

ReadErrorSpec == MergeFaultInit /\ [][ReadErrorNext]_vars

\* merge(sortedChunks, outputFile, {maxOpenFiles}) on sorted chunk files of
\* which some may be missing
HierInit ==
  /\ entry = "merge"
  /\ input = <<>>
  /\ \E m \in 0 .. MaxOpenFilesOpt :
       opts = [maxMemoryBytes |-> 0, cleanup |-> FALSE, useWorkers |-> TRUE,
               maxWorkers |-> 0, maxOpenFiles |-> m]
  /\ cpus = 1
  /\ \E n \in 0 .. MaxHierChunks :
       /\ chunkFiles = [i \in 1 .. n |-> getChunkPath(i - 1)]
       /\ \E files \in ChunkFilesOf(n, MaxHierLines) :
            /\ results = [i \in 0 .. n - 1 |-> sortedPathOf(getChunkPath(i))]
            /\ disk = [p \in { sortedPathOf(getChunkPath(i - 1)) :
                               i \in { k \in 1 .. n : files[k].exists } }
                       |-> files[p[2] + 1].lines]
  /\ disk0 = disk
  /\ pc = "merge"
  /\ InitRest

HierStep ==
  \/ HierLevelStart
  \/ HierPassThrough
  \/ HierMergeGroup
  \/ HierLevelEnd
  \/ HierRename

HierNext == KWayStep \/ HierStep

HierSpec == HierInit /\ [][HierNext]_vars

(***************************************************************************)
(* Properties.                                                              *)
(***************************************************************************)
\* every line a file can hold: the input's lines and their cut-off beginnings
AllLines == Lines \cup UNION { ProperPrefixes(l) : l \in Lines }

Count(s, x) == Cardinality({ i \in 1 .. Len(s) : s[i] = x })

\* the two sequences hold the same non-blank lines, each as often
SameNonBlank(s, t) == \A l \in AllLines : NonBlank(l) => Count(s, l) = Count(t, l)

\* the two sequences hold the same lines, each as often
SameLines(s, t) == \A l \in AllLines : Count(s, l) = Count(t, l)

Output == IF Exists(outputFile) THEN disk[outputFile] ELSE <<>>

\* a worker thread that has not yet finished its file-system calls
Running(w) == workers[w].pc \in {"read", "open", "write", "unlink"}

\* a worker that was started and whose message or error event the scheduler
\* has not handled yet
Unreported(w) == workers[w].pc \in {"read", "open", "write", "unlink", "msg_ok", "msg_fail", "crashed"}

\* C1: when externalSort has completed, the output file holds exactly the
\* non-blank lines of the input, each as often as the input does.
C1_MultisetPreserved == pc = "done" => SameNonBlank(Output, input)

\* C2: when externalSort has completed, the lines of the output file are in
\* non-decreasing code-unit order.
C2_OutputSorted == pc = "done" => IsSorted(Output)

\* a worker whose failure the scheduler has been told of
FailureReported(w) == workers[w].pc \in {"reported_fail", "reported_error"}

\* C3: in parallel mode a resolved sortChunks gives a list with one entry per
\* chunk, entry i being the sorted path of chunk i.
C3_ResultsComplete ==
  promise = "resolved" =>
    /\ DOMAIN results = 0 .. Len(chunkFiles) - 1
    /\ \A i \in DOMAIN results : results[i] = sortedPathOf(chunkFiles[i + 1])

\* C4: no two workers that are at work have the same chunk.
C4_OneWorkerPerChunk ==
  \A v, w \in Workers :
    (v # w /\ Running(v) /\ Running(w)) => workers[v].chunkIndex # workers[w].chunkIndex

\* C5: while the merger or the clean-up runs, no sort worker is at work.
C5_SortFinishedBeforeMerge ==
  pc \in {"merge", "preflight", "prime", "loop", "cleanup", "rmdir"} =>
    \A w \in Workers : ~Running(w)

\* C6: for an empty input externalSort ends without error, with no chunk and
\* an empty output file.
C6_EmptyInput ==
  (input = <<>> /\ pc \in {"done", "failed"}) =>
    /\ pc = "done"
    /\ chunkFiles = <<>>
    /\ Exists(outputFile) /\ disk[outputFile] = <<>>

\* C7: sortChunks is never resolved in a run in which a worker has reported a
\* failure.
C7_FailureAborts == ~(promise = "resolved" /\ \E w \in Workers : FailureReported(w))

\* the parallelism sortChunks is configured with: options.maxWorkers, or
\* without it the smaller of 4 and the number of CPUs
ConfiguredParallelism ==
  IF opts.maxWorkers # 0 THEN opts.maxWorkers ELSE Min(DefaultWorkerCap, cpus)

\* C8: the workers started and not yet reported are never more than the
\* configured parallelism.
C8_BoundedWorkers == Cardinality({ w \in Workers : Unreported(w) }) <= ConfiguredParallelism

\* C8 witness: three chunks, two slots, two workers at work and a message of
\* an earlier worker already handled
C8_Witness ==
  /\ Len(chunkFiles) = 3
  /\ Cardinality({ w \in Workers : Unreported(w) }) = 2
  /\ ConfiguredParallelism = 2
  /\ completedChunks >= 1

\* the paths merge was given, in order
GivenPaths == [i \in 1 .. ArrLen(sortedChunks) |-> ArrAt(sortedChunks, i - 1)]

RECURSIVE ReadableOf(_)
ReadableOf(paths) ==
  IF paths = <<>> THEN <<>>
  ELSE (IF Head(paths) \in DOMAIN disk0 THEN <<Head(paths)>> ELSE <<>>) \o ReadableOf(Tail(paths))

\* the lines of the files at `paths` when merge was called
RECURSIVE LinesOf(_)
LinesOf(paths) == IF paths = <<>> THEN <<>> ELSE disk0[Head(paths)] \o LinesOf(Tail(paths))

\* C9: merging sorted chunk files that are all readable gives a sorted output
\* with exactly the lines of the chunks, each as often as the chunks hold it.
C9_MergeSortedUnion ==
  (entry = "merge" /\ pc = "returned" /\ ReadableOf(GivenPaths) = GivenPaths) =>
    /\ IsSorted(Output)
    /\ SameLines(Output, LinesOf(GivenPaths))

\* C9 witness: three readable chunks were merged, a line of one chunk is also
\* in another chunk, and a chunk has two lines
C9_Witness ==
  /\ entry = "merge" /\ pc = "returned"
  /\ Len(GivenPaths) = 3 /\ ReadableOf(GivenPaths) = GivenPaths
  /\ Len(Output) = 4
  /\ \E i, j \in 1 .. 3 : i # j /\ \E l \in Lines :
       Count(disk0[GivenPaths[i]], l) > 0 /\ Count(disk0[GivenPaths[j]], l) > 0
  /\ \E i \in 1 .. 3 : Len(disk0[GivenPaths[i]]) = 2 /\ disk0[GivenPaths[i]][1] # disk0[GivenPaths[i]][2]

\* C10: the pre-flight check keeps exactly the readable paths; the merge
\* fails exactly when none is readable, and otherwise writes the sorted lines
\* of the readable chunks, each as often as they hold it.
C10_PreflightSkipsUnreadable ==
  (entry = "merge" /\ pc \in {"returned", "failed"}) =>
    /\ existingChunks = ReadableOf(GivenPaths)
    /\ (pc = "failed") <=> (ReadableOf(GivenPaths) = <<>>)
    /\ pc = "returned" =>
         /\ IsSorted(Output)
         /\ SameLines(Output, LinesOf(ReadableOf(GivenPaths)))

\* C10 witness: of three chunks the middle one is missing, the merge has
\* returned and has written the lines of the two others
C10_Witness ==
  /\ entry = "merge" /\ pc = "returned"
  /\ Len(GivenPaths) = 3
  /\ ReadableOf(GivenPaths) = <<GivenPaths[1], GivenPaths[3]>>
  /\ Len(Output) >= 3

\* the merge loop of _kWayMerge (index.js 364-394) run to its end on files
\* that do not change: the lines written
RECURSIVE kWayLoop(_, _, _, _)
kWayLoop(rs, h, d, written) ==
  IF Len(h) = 0 THEN written
  ELSE LET ex == extractMin(rs, h)
           reader == ex.min
           rs2 == [rs EXCEPT ![reader] = AdvanceInLoop(@, d)]
           h2 == IF ~rs2[reader].done /\ rs2[reader].current # Null
                 THEN heapInsert(rs2, ex.heap, reader)
                 ELSE ex.heap
       IN kWayLoop(rs2, h2, d, Append(written, rs[reader].current))

\* the lines one _kWayMerge call writes for the files at `paths` of disk d
kWayMergeLines(paths, d) ==
  LET primed == [i \in 1 .. Len(paths) |->
                   Advance([path |-> paths[i], pos |-> 0, current |-> Null, done |-> FALSE,
                            buffered |-> <<>>, ended |-> FALSE, errored |-> FALSE], d)]
  IN kWayLoop(primed, InsertValid(primed, <<>>, Len(primed)), d, <<>>)

\* all the chunks merge was given are readable
AllReadable == ReadableOf(GivenPaths) = GivenPaths

\* C11: the hierarchical merge of n readable sorted chunks writes, in fewer
\* than n levels and without error, the very sequence of lines that a single
\* _kWayMerge over all the chunks writes.
C11_HierarchicalSameAsKWay ==
  (entry = "merge" /\ mergePath = "hier" /\ AllReadable) =>
    /\ levelIndex < Len(GivenPaths)
    /\ pc # "failed"
    /\ pc = "returned" => Output = kWayMergeLines(GivenPaths, disk0)

\* C12: every level of the hierarchical merge leaves fewer files than it
\* found, and the merge returns with one file left, moved to the output path.
C12_LevelsShrink ==
  (entry = "merge" /\ mergePath = "hier") =>
    /\ (pc = "group" /\ groupStart >= Len(currentLevel)) => Len(nextLevel) < Len(currentLevel)
    /\ pc = "returned" =>
         /\ Len(currentLevel) = 1
         /\ Exists(outputFile) /\ ~Exists(currentLevel[1])

\* the chunk readers created and not yet closed
OpenReaders == IF pc \in {"prime", "loop"} THEN Len(readers) ELSE 0

\* C13: never more than maxOpenFiles chunk readers are open, and merge goes
\* the hierarchical way exactly when it is given more than maxOpenFiles chunks.
C13_BoundedOpenReaders ==
  /\ OpenReaders <= maxOpenFilesOf(opts)
  /\ mergePath # "none" =>
       (mergePath = "hier" <=> ArrLen(sortedChunks) > maxOpenFilesOf(opts))

\* C13 witness: in the second level of a hierarchical merge of three chunks
\* with maxOpenFiles = 2, both readers of the group are open and a line is
\* written
C13_Witness ==
  /\ mergePath = "hier" /\ pc = "loop"
  /\ maxOpenFilesOf(opts) = 2 /\ Len(GivenPaths) = 3
  /\ levelIndex = 2
  /\ OpenReaders = 2
  /\ linesWritten >= 1

\* the bytes _writeChunk writes for the lines: each line and its "\n"
RECURSIVE chunkBytes(_)
chunkBytes(lines) ==
  IF lines = <<>> THEN 0 ELSE byteLength(Head(lines) \o NewLine) + chunkBytes(Tail(lines))

\* the size of the last line of a chunk, with its "\n"
LastLineSize(lines) == byteLength(lines[Len(lines)] \o NewLine)

\* the threshold of the Splitter of the call
Threshold == chunkSizeBytes(opts.maxMemoryBytes)

\* the chunks written so far by the flush inside the loop: all of them but
\* the one the end of split writes from a buffer that is not empty
FlushedInLoop ==
  IF pc # "split" /\ Len(linesBuffer) > 0 THEN Len(chunkFiles) - 1 ELSE Len(chunkFiles)

\* the buffer is below the threshold before a line is appended
BelowBeforeAppend == (pc = "split" /\ inPos < Len(input)) => currentChunkSize < Threshold

\* every chunk exceeds the threshold by less than its last line
OvershootBelowLastLine ==
  \A i \in 1 .. Len(chunkFiles) :
    chunkBytes(disk[chunkFiles[i]]) - Threshold < LastLineSize(disk[chunkFiles[i]])

\* every chunk but the final one has reached the threshold
FlushedReachThreshold ==
  \A i \in 1 .. FlushedInLoop : chunkBytes(disk[chunkFiles[i]]) >= Threshold

\* C14 as stated: the running count is below chunkSizeBytes before every
\* append, every chunk exceeds chunkSizeBytes by less than its last line, and
\* every chunk but the final one has at least chunkSizeBytes.
C14_ChunkSizeBound ==
  entry = "split" =>
    /\ BelowBeforeAppend
    /\ OvershootBelowLastLine
    /\ FlushedReachThreshold

\* C14 amended: the same when chunkSizeBytes is at least 1; with chunkSizeBytes
\* 0 every line is a chunk of its own, which exceeds chunkSizeBytes by exactly
\* the size of its line.
C14_ChunkSizeBoundPositive ==
  entry = "split" =>
    /\ Threshold >= 1 => (BelowBeforeAppend /\ OvershootBelowLastLine)
    /\ Threshold = 0 =>
         \A i \in 1 .. Len(chunkFiles) :
           /\ Len(disk[chunkFiles[i]]) = 1
           /\ chunkBytes(disk[chunkFiles[i]]) - Threshold = LastLineSize(disk[chunkFiles[i]])
    /\ FlushedReachThreshold

\* C14 witness: split has returned a chunk that went over a threshold of 4
\* bytes and a final chunk that stayed under it
C14_Witness ==
  /\ entry = "split" /\ pc = "returned"
  /\ Threshold = 4
  /\ Len(chunkFiles) = 2
  /\ chunkBytes(disk[chunkFiles[1]]) > Threshold
  /\ chunkBytes(disk[chunkFiles[2]]) < Threshold

RECURSIVE Concat(_)
Concat(ss) == IF ss = <<>> THEN <<>> ELSE Head(ss) \o Concat(Tail(ss))

\* C15: the chunks split returns, one after the other, are the lines of the
\* input; no chunk is empty; chunk i is at the path of index i; there is no
\* chunk exactly when the input has no line.
C15_SplitPartitions ==
  (entry = "split" /\ pc = "returned") =>
    /\ Concat([i \in 1 .. Len(chunkFiles) |-> disk[chunkFiles[i]]]) = input
    /\ \A i \in 1 .. Len(chunkFiles) :
         /\ disk[chunkFiles[i]] # <<>>
         /\ chunkFiles[i] = getChunkPath(i - 1)
    /\ (chunkFiles = <<>>) <=> (input = <<>>)

\* C15 witness: three lines were split in a chunk of two lines, flushed in
\* the loop, and a final chunk of one line
C15_Witness ==
  /\ entry = "split" /\ pc = "returned"
  /\ Len(input) = 3
  /\ Len(chunkFiles) = 2
  /\ Len(disk[chunkFiles[1]]) = 2
  /\ Len(linesBuffer) = 1

\* the sorted chunk of a chunk: its lines that are not blank, in order
ExpectedSorted(lines) == sortLines(filterLines(lines))

\* the inline sortChunk writes the expected sorted chunk
InlineWritesExpected ==
  (pc = "seq" /\ pc' = "seq_unlink") =>
    disk'[sortedPathOf(chunkFiles[seqIdx + 1])] = ExpectedSorted(disk0[chunkFiles[seqIdx + 1]])

\* the worker's sortChunk writes the expected sorted chunk
WorkerWritesExpected ==
  \A w \in Workers :
    (workers[w].pc = "write" /\ workers'[w].pc = "unlink") =>
      disk'[sortedPathOf(workers[w].chunkPath)] = ExpectedSorted(disk0[workers[w].chunkPath])

\* C16: in both modes the sorted chunk written for a chunk holds exactly the
\* lines of the chunk that are not blank, in non-decreasing code-unit order
\* (so the two modes write the same sorted chunk).
C16_SortedChunkContents == [][InlineWritesExpected /\ WorkerWritesExpected]_vars

\* C17: verifySortedFile returns true exactly for the files whose lines are
\* in non-decreasing code-unit order, the order of the sorter and the merger.
C17_VerifyAcceptsSorted ==
  (entry = "verify" /\ pc = "returned") => (isSorted <=> IsSorted(disk[outputFile]))

\* the number of lines of the readable chunks merge was given
TotalReadableLines == Len(LinesOf(ReadableOf(GivenPaths)))

\* C18 as stated: _kWayMerge returns the count of the lines it wrote, which
\* is the number of lines of the readable chunks.
C18_ReturnsLineCount ==
  (entry = "merge" /\ pc = "returned") =>
    /\ kWayResult = <<"number", linesWritten>>
    /\ linesWritten = TotalReadableLines

\* C18 amended: _kWayMerge returns nothing (undefined); the count of the
\* lines it wrote, which it logs, is the number of lines of the output file
\* and of the readable chunks.
C18_CountsAllReturnsNothing ==
  (entry = "merge" /\ pc = "returned") =>
    /\ kWayResult = Undefined
    /\ linesWritten = Len(Output)
    /\ linesWritten = TotalReadableLines

\* C18 witness: a merge of three paths, one of them unreadable, has returned
\* after it wrote four lines
C18_Witness ==
  /\ entry = "merge" /\ pc = "returned"
  /\ Len(GivenPaths) = 3 /\ Len(ReadableOf(GivenPaths)) = 2
  /\ linesWritten = 4

\* the readers in the heap
HeapMembers == { heap[i] : i \in 1 .. Len(heap) }

\* a reader that has a current line
Live(r) == ~readers[r].done /\ readers[r].current # Null

\* C19: at every turn of the merge loop the heap holds no reader twice, holds
\* every reader that has a current line, and extractMin gives a reader whose
\* line is not greater than the current line of any other such reader.
C19_HeapInvariant ==
  pc = "loop" =>
    /\ Cardinality(HeapMembers) = Len(heap)
    /\ \A r \in DOMAIN readers : Live(r) => r \in HeapMembers
    /\ Len(heap) > 0 =>
         \A r \in DOMAIN readers :
           Live(r) => ~LineLess(readers[r].current,
                                readers[extractMin(readers, heap).min].current)

\* C19 witness: lines were written, three readers are in the heap and the
\* one at the root is not the first reader
C19_Witness ==
  /\ entry = "merge" /\ pc = "loop"
  /\ linesWritten >= 1
  /\ Len(heap) = 3
  /\ heap[1] # 1
  /\ \E r \in DOMAIN readers : LineLess(readers[heap[1]].current, readers[r].current)

\* every reader in the heap after the step has a current line
HeapHoldsLiveReaders ==
  \A i \in 1 .. Len(heap') :
    ~readers'[heap'[i]].done /\ readers'[heap'[i]].current # Null

\* a reader that was done stays done and is not in the heap after the step
DoneStaysOut ==
  \A r \in DOMAIN readers \cap DOMAIN readers' :
    readers[r].done => (readers'[r].done /\ \A i \in 1 .. Len(heap') : heap'[i] # r)

\* a line written by the step is the current line of a reader that was not
\* done
WrittenLineIsLive ==
  linesWritten' = linesWritten + 1 =>
    \E r \in DOMAIN readers :
      /\ Live(r)
      /\ disk'[kWayOutput] = Append(disk[kWayOutput], readers[r].current)

\* C20: the heap only ever holds readers that have a current line; a reader
\* that is exhausted, or whose read failed, or that was empty at priming,
\* never enters the heap again, and no line of it is written afterwards.
C20_ExhaustedStaysOut == [][HeapHoldsLiveReaders /\ DoneStaysOut /\ WrittenLineIsLive]_vars

\* C20 witness: in the merge loop one reader was empty at priming, the read of
\* another failed after a line of it was written, and a third is in the heap
C20_Witness ==
  /\ entry = "merge" /\ pc = "loop"
  /\ linesWritten >= 2
  /\ Len(heap) >= 1
  /\ \E r \in DOMAIN readers :
       /\ readers[r].done /\ readers[r].current = Null
       /\ readers[r].path \in DOMAIN disk0 /\ disk0[readers[r].path] = <<>>
  /\ \E r \in DOMAIN readers : readers[r].done /\ readers[r].current # Null

\* the scheduler has been told of the failure of a worker
FailureSeen == \E w \in Workers : FailureReported(w)

\* C21: once a failure of a worker has been reported to sortChunks, no step
\* starts a further worker, so no further chunk is dispatched.
C21_HaltsAfterFailure == [][FailureSeen => Len(workers') = Len(workers)]_vars

\* sortChunks runs with a pool of one worker, or inline
OneWorker == entry = "sortChunks" /\ (Sequential \/ maxWorkersOf(opts, cpus) = 1)

\* the workers were started in index order, each after the one before it had
\* reported its sorted chunk, so at most one is at work and none has a chunk
\* that another had
OneAtATimeInOrder ==
  \A w \in Workers :
    /\ workers[w].chunkIndex = w - 1
    /\ \A v \in Workers : v < w => workers[v].pc = "reported_ok"

\* the inline loop has sorted the chunks before seqIdx and none after it
InlineInOrder ==
  pc \in {"seq", "seq_unlink"} =>
    /\ DOMAIN results = 0 .. seqIdx - 1
    /\ \A i \in 1 .. Len(chunkFiles) :
         Exists(sortedPathOf(chunkFiles[i])) <=>
           (i - 1 < seqIdx \/ (i - 1 = seqIdx /\ pc = "seq_unlink"))

\* the list sortChunks returned has the sorted path of every chunk, in order,
\* and each of these files is there and sorted
CompleteResults ==
  /\ DOMAIN results = 0 .. Len(chunkFiles) - 1
  /\ \A i \in DOMAIN results :
       /\ results[i] = sortedPathOf(chunkFiles[i + 1])
       /\ Exists(results[i]) /\ IsSorted(disk[results[i]])

\* C22: with one worker sortChunks sorts the chunks one at a time in index
\* order, each chunk once, and returns the complete list of sorted paths.
C22_OneWorkerInOrder ==
  OneWorker =>
    /\ OneAtATimeInOrder
    /\ InlineInOrder
    /\ Len(workers) <= Len(chunkFiles)
    /\ pc = "returned" =>
         /\ CompleteResults
         /\ ~Sequential => Len(workers) = Len(chunkFiles)

\* C22 witness: three chunks were sorted by a pool of one worker and the list
\* was returned
C22_Witness ==
  /\ entry = "sortChunks" /\ pc = "returned"
  /\ opts.useWorkers /\ maxWorkersOf(opts, cpus) = 1
  /\ Len(chunkFiles) = 3 /\ Len(workers) = 3
  /\ DOMAIN results = 0 .. 2

\* the paths of `paths` whose files the step deletes
RECURSIVE DeletedOf(_, _, _)
DeletedOf(paths, before, after) ==
  IF paths = <<>> THEN <<>>
  ELSE (IF Head(paths) \in before /\ Head(paths) \notin after THEN <<Head(paths)>> ELSE <<>>)
       \o DeletedOf(Tail(paths), before, after)

\* the lines of the files at `paths` of disk d
RECURSIVE LinesOn(_, _)
LinesOn(paths, d) == IF paths = <<>> THEN <<>> ELSE d[Head(paths)] \o LinesOn(Tail(paths), d)

\* the chunk files the step of _kWayMerge deletes
DeletedChunks == DeletedOf(existingChunks, DOMAIN disk, DOMAIN disk')

\* the step that deletes chunk files is the one that ends the output stream
\* after the loop
DeletesAfterEnd == DeletedChunks # <<>> => (pc = "loop" /\ Len(heap) = 0 /\ pc' # "loop")

\* every line of a deleted chunk file is in the output, as often as the
\* deleted chunk files hold it
DeletedWereEmitted ==
  DeletedChunks # <<>> =>
    \A l \in AllLines : Count(disk'[kWayOutput], l) >= Count(LinesOn(DeletedChunks, disk), l)

\* C23: _kWayMerge deletes a chunk file only in the step that ends the output
\* stream, and only when every line of the file has been written to the
\* output.
C23_DeletesOnlyEmitted ==
  [][(entry = "merge" /\ mergePath = "kway") => (DeletesAfterEnd /\ DeletedWereEmitted)]_vars

\* the sorted file of chunk i is complete: it is sorted and holds the
\* non-blank lines the chunk file had, each as often
SortedCopyComplete(i) ==
  LET path == sortedPathOf(chunkFiles[i])
  IN /\ Exists(path)
     /\ IsSorted(disk[path])
     /\ SameNonBlank(disk[path], disk0[chunkFiles[i]])

\* the lines of every chunk that sortChunks was given are on disk, in the
\* chunk file as it was or in the complete sorted file
ChunkLinesOnDisk ==
  \A i \in 1 .. Len(chunkFiles) :
    chunkFiles[i] \in DOMAIN disk0 =>
      \/ Exists(chunkFiles[i]) /\ disk[chunkFiles[i]] = disk0[chunkFiles[i]]
      \/ SortedCopyComplete(i)

\* a sorter that is past its unlink reports success with the sorted path,
\* whether the unlink found the file or not
UnlinkNeverFails ==
  /\ \A w \in DOMAIN workers \cap DOMAIN workers' :
       (workers[w].pc = "unlink" /\ workers'[w].pc # "unlink") => workers'[w].pc = "msg_ok"
  /\ (pc = "seq_unlink" /\ pc' # "seq_unlink") =>
       (pc' = "seq" /\ ArrAt(results', seqIdx) = sortedPathOf(chunkFiles[seqIdx + 1]))

\* C24: a chunk file is deleted only after its sorted copy is complete, so
\* the lines of every chunk are on disk at every moment, in the chunk file or
\* in the complete sorted file; a deletion that fails leaves the sort of the
\* chunk successful.
C24_OriginalKeptUntilSorted ==
  /\ [](entry = "sortChunks" => ChunkLinesOnDisk)
  /\ [][entry = "sortChunks" => UnlinkNeverFails]_vars

\* sortChunks takes the branch of the worker pool
PoolBranch == entry = "sortChunks" /\ opts.useWorkers /\ Len(chunkFiles) >= 2

\* a promise that is settled stays as it is
SettledOnce == promise # "pending" => promise' = promise

\* C25: when every worker posts its message, the promise of a sortChunks call
\* with two or more chunks and a pool is settled in the end, whatever the
\* order of the messages, and once settled it does not change.
C25_EventuallySettledOnce ==
  /\ (PoolBranch /\ pc = "await_sort") ~> promise # "pending"
  /\ [][PoolBranch => SettledOnce]_vars

\* C25 witness: the promise of a call with two chunks and two slots was
\* rejected, and the workers that went on have since counted both chunks, so
\* that resolve was called on the settled promise
C25_Witness ==
  /\ PoolBranch /\ Len(chunkFiles) = 2 /\ maxWorkersOf(opts, cpus) = 2
  /\ promise = "rejected"
  /\ completedChunks = 2

=============================================================================
